---- MODULE Spec2Model ----
(***************************************************************************)
(* Model of the personalized story generator: the session rate limiter     *)
(* (src/src/rate_limiter.py), the request handler of the application       *)
(* (src/app.py), the story generator (src/src/story_generator.py) and the  *)
(* chunking of long texts for speech (src/src/tts_engine.py).              *)
(*                                                                         *)
(* Texts are sequences of atoms.  Names, custom themes and LLM stories are *)
(* sequences of single characters, the demo story is a sequence of words   *)
(* and whitespace runs, and message literals are cut into fragments such   *)
(* that the two substrings the handler searches for, "API key" and         *)
(* "GROQ_API_KEY", are atoms of their own wherever they occur.  Python's   *)
(* `sub in text` is contiguous-subsequence containment.                    *)
(*                                                                         *)
(* Spec      the rate limiter under sequential calls and date changes      *)
(* AppSpec   the request handler of the application                        *)
(* QuotaSpec the request handler with the stories of one date counted      *)
(* RetrySpec generate_story for any max_retries                             *)
(* LazySpec  sequential get_story_generator / get_tts_engine calls         *)
(* RaceSpec  check_and_update called by several threads on one session     *)
(* ConcSpec  the request handler run by several threads at once            *)
(* SplitSpec _split_into_chunks on texts put together from short pieces    *)
(* GacSpec   generate_audio_chunks on short and long texts                 *)
(***************************************************************************)
EXTENDS Integers, Sequences, FiniteSets, TLC

\* ------------------------------------------------------------------------
\* Bounds of the model
\* ------------------------------------------------------------------------
NumDays == 3
NumSessionIds == 2
MaxNameLen == 2
MaxStoriesReturned == 11
MaxRetries == 3
MaxLazyCalls == 5
NumThreads == 2
MaxRaceCalls == 3
MaxBlocks == 5
MaxLongSentences == 6

Days == 1..NumDays
Threads == 1..NumThreads
SessionIds == 1..NumSessionIds

\* ------------------------------------------------------------------------
\* Program constants
\* ------------------------------------------------------------------------
MAX_STORIES_PER_DAY == 10
MIN_STORY_LENGTH == 200
DEFAULT_MAX_RETRIES == 2
WORDS_PER_MINUTE == 130
MIN_SENTENCE_CHARS == 10
DEFAULT_CHUNK_SIZE == 2000
CHUNK_THRESHOLD == 5000

\* Python's None
None == [none |-> TRUE]

VARIABLES
    today,          \* date.today(), the current date of the host clock
    state,          \* the session's rate-limit record (None before first use)
    call,           \* the last check_and_update call: its state before, date and return value
    runAllowed,     \* calls that returned allowed=True since the date last changed
    runBlocked,     \* a call returned allowed=False since the date last changed
    GROQ_API_KEY,   \* os.environ.get("GROQ_API_KEY") of the process
    DEMO_MODE,      \* app.DEMO_MODE, evaluated once at import
    story_generator,\* app.story_generator, the lazy global
    tts_engine,     \* app.tts_engine, the lazy global
    pc,             \* position of the request handler: idle, llm, tts, done
    req,            \* inputs of the request being handled
    clean_name,     \* local clean_name of generate_story_and_audio
    generation,     \* which story generation the request invoked: none, demo, llm
    attempt,        \* loop index of generate_story
    last_error,     \* local last_error of generate_story
    story_text,     \* local story_text of generate_story_and_audio
    tts_error,      \* the exception the TTS call of this request raised, if any
    llm_calls,      \* chat-completion requests issued for this request
    tts_calls,      \* generate_audio calls made for this request
    result,         \* the tuple the handler returned
    storiesReturned,\* requests that returned a non-empty story so far
    gs_child_name,  \* generate_story: the argument child_name
    gs_max_retries, \* generate_story: the argument max_retries
    gs_pc,          \* generate_story: ready, loop, returned, raised
    gs_attempt,     \* generate_story: the loop variable attempt
    gs_last_error,  \* generate_story: the local last_error
    gs_requests,    \* generate_story: chat-completion requests issued by the call
    gs_passed,      \* generate_story: requests issued when a response first passed validation (0: none yet)
    gs_value,       \* generate_story: what the call returned
    gs_raised,      \* generate_story: the exception the call raised
    lazy_calls,     \* get_story_generator / get_tts_engine calls made so far
    sg_constructions, \* StoryGenerator() constructor calls so far
    sg_built,       \* StoryGenerator instances built so far
    tts_built,      \* TTSEngine instances built so far
    lazy_last,      \* the last get_* call: the global before it and what it did
    rc_pc,          \* concurrent check_and_update: each thread's position
    rc_today,       \* concurrent check_and_update: each thread's local 'today'
    rc_stories,     \* concurrent check_and_update: each thread's local 'stories_today'
    race_calls,     \* concurrent check_and_update: concurrent calls started so far
    race_allowed,   \* concurrent check_and_update: allowed=True returns per date
    cc_pc,          \* concurrent requests: each worker thread's position in the handler
    cc_req,         \* concurrent requests: the form fields of each thread's request
    cc_attempt,     \* concurrent requests: each thread's loop index in generate_story
    cc_story,       \* concurrent requests: each thread's story_text
    cc_generator,   \* concurrent requests: each thread's local 'generator'
    cc_tts,         \* concurrent requests: each thread's local 'tts'
    cc_ext,         \* what the LLM and TTS services answered to each thread's request
    cc_result,      \* concurrent requests: the tuple each thread's request returned
    cc_access,      \* module globals each thread's request has read or written
    cc_writes,      \* module globals the requests of each thread have written
    sp_text,        \* _split_into_chunks: the argument text
    sp_chunk_size,  \* _split_into_chunks: the argument chunk_size
    sp_pc,          \* _split_into_chunks: "ready" or "returned"
    sp_chunks,      \* _split_into_chunks: the list returned
    ga_text,        \* generate_audio_chunks: the argument text
    ga_chunk_size,  \* generate_audio_chunks: the argument chunk_size
    ga_pc,          \* generate_audio_chunks: position ("ready", "loop", "concat", ...)
    ga_chunks,      \* generate_audio_chunks: the local 'chunks'
    ga_audio_files, \* generate_audio_chunks: the local 'audio_files' (temp file numbers)
    ga_spoken,      \* the text of each TTS request so far; request i wrote temp file i
    ga_tmp,         \* the temp files that exist
    ga_output,      \* the file returned: its number and the audio segments it holds
    ga_raised       \* generate_audio_chunks: the exception the call raised

rlVars == <<state, call, runAllowed, runBlocked>>
appVars == <<GROQ_API_KEY, DEMO_MODE, story_generator, tts_engine, pc, req, clean_name,
             generation, attempt, last_error, story_text, tts_error, llm_calls,
             tts_calls, result, storiesReturned>>
retryVars == <<gs_child_name, gs_max_retries, gs_pc, gs_attempt, gs_last_error,
               gs_requests, gs_passed, gs_value, gs_raised>>
lazyVars == <<lazy_calls, sg_constructions, sg_built, tts_built, lazy_last>>
raceVars == <<rc_pc, rc_today, rc_stories, race_calls, race_allowed>>
concVars == <<cc_pc, cc_req, cc_attempt, cc_story, cc_generator, cc_tts, cc_ext,
              cc_result, cc_access, cc_writes>>
splitVars == <<sp_text, sp_chunk_size, sp_pc, sp_chunks>>
gacVars == <<ga_text, ga_chunk_size, ga_pc, ga_chunks, ga_audio_files, ga_spoken, ga_tmp,
             ga_output, ga_raised>>
extVars == <<retryVars, lazyVars, raceVars, concVars, splitVars, gacVars>>
vars == <<today, state, call, runAllowed, runBlocked, GROQ_API_KEY, DEMO_MODE,
          story_generator, tts_engine, pc, req, clean_name, generation, attempt,
          last_error, story_text, tts_error, llm_calls, tts_calls, result,
          storiesReturned, retryVars, lazyVars, raceVars, concVars, splitVars, gacVars>>

\* ------------------------------------------------------------------------
\* src/src/rate_limiter.py
\* ------------------------------------------------------------------------
get_initial_state(id, d) ==
    [session_id |-> id, stories_generated_today |-> 0, last_generation_date |-> d]

BlockedMessage ==
    <<"You've created ", ToString(MAX_STORIES_PER_DAY), " stories today! ",
      "Come back tomorrow for more magical adventures.">>

AllowedMessage(remaining) ==
    <<"Story generated! You have ", ToString(remaining), " stories remaining today.">>

\* Mutant of RolledOver: the date is refreshed but the counter is not reset.
RolledOver_NoReset(st, id, d) ==
    LET s0 == IF st = None THEN get_initial_state(id, d) ELSE st
    IN  [s0 EXCEPT !.last_generation_date = d]

\* The state after the date-rollover check of check_and_update (lines 45-53).
RolledOver(st, id, d) ==
    LET s0 == IF st = None THEN get_initial_state(id, d) ELSE st
    IN  IF s0.last_generation_date # d
        THEN [s0 EXCEPT !.stories_generated_today = 0, !.last_generation_date = d]
        ELSE s0

\* Mutant of check_and_update: the limit test is off by one (> for >=).
check_and_update_OffByOne(st, id, d) ==
    LET s1 == RolledOver(st, id, d)
        stories_today == s1.stories_generated_today
    IN  IF stories_today > MAX_STORIES_PER_DAY
        THEN [allowed |-> FALSE, remaining |-> 0, message |-> BlockedMessage, state |-> s1]
        ELSE [allowed |-> TRUE,
              remaining |-> MAX_STORIES_PER_DAY - stories_today - 1,
              message |-> AllowedMessage(MAX_STORIES_PER_DAY - stories_today - 1),
              state |-> [s1 EXCEPT !.stories_generated_today = stories_today + 1]]

\* Mutant of check_and_update: a blocked call still counts the attempt.
check_and_update_CountsBlocked(st, id, d) ==
    LET s1 == RolledOver(st, id, d)
        stories_today == s1.stories_generated_today
    IN  IF stories_today >= MAX_STORIES_PER_DAY
        THEN [allowed |-> FALSE, remaining |-> 0, message |-> BlockedMessage,
              state |-> [s1 EXCEPT !.stories_generated_today = stories_today + 1]]
        ELSE [allowed |-> TRUE,
              remaining |-> MAX_STORIES_PER_DAY - stories_today - 1,
              message |-> AllowedMessage(MAX_STORIES_PER_DAY - stories_today - 1),
              state |-> [s1 EXCEPT !.stories_generated_today = stories_today + 1]]

\* Mutant of check_and_update: remaining is computed before the increment.
check_and_update_StaleRemaining(st, id, d) ==
    LET s1 == RolledOver(st, id, d)
        stories_today == s1.stories_generated_today
    IN  IF stories_today >= MAX_STORIES_PER_DAY
        THEN [allowed |-> FALSE, remaining |-> 0, message |-> BlockedMessage, state |-> s1]
        ELSE [allowed |-> TRUE,
              remaining |-> MAX_STORIES_PER_DAY - stories_today,
              message |-> AllowedMessage(MAX_STORIES_PER_DAY - stories_today),
              state |-> [s1 EXCEPT !.stories_generated_today = stories_today + 1]]

check_and_update(st, id, d) ==
    LET s1 == RolledOver(st, id, d)
        stories_today == s1.stories_generated_today
    IN  IF stories_today >= MAX_STORIES_PER_DAY
        THEN [allowed |-> FALSE, remaining |-> 0, message |-> BlockedMessage, state |-> s1]
        ELSE [allowed |-> TRUE,
              remaining |-> MAX_STORIES_PER_DAY - stories_today - 1,
              message |-> AllowedMessage(MAX_STORIES_PER_DAY - stories_today - 1),
              state |-> [s1 EXCEPT !.stories_generated_today = stories_today + 1]]

\* Mutant of get_remaining: the date of the record is not looked at.
get_remaining_NoRollover(st, d) ==
    IF st = None THEN MAX_STORIES_PER_DAY
    ELSE IF MAX_STORIES_PER_DAY - st.stories_generated_today > 0
         THEN MAX_STORIES_PER_DAY - st.stories_generated_today
         ELSE 0

\* RateLimiter.get_remaining (lines 78-98)
get_remaining(st, d) ==
    IF st = None THEN MAX_STORIES_PER_DAY
    ELSE IF st.last_generation_date # d THEN MAX_STORIES_PER_DAY
    ELSE IF MAX_STORIES_PER_DAY - st.stories_generated_today > 0
         THEN MAX_STORIES_PER_DAY - st.stories_generated_today
         ELSE 0

\* ------------------------------------------------------------------------
\* Texts (Python str)
\* ------------------------------------------------------------------------
LowerCase == {"a", "b", "o", "z", "pirates", "treasure"}
UpperCase == {"A", "B", "O", "Z", "Pirates", "Treasure"}

\* str.isalpha() of one character
isalpha(c) == c \in {"a", "b", "o", "z", "A", "B", "O", "Z"}

\* str.isspace() of one atom
isspace(c) == c \in {" ", "\n", "\n\n"}

lowerAtom(c) ==
    CASE c = "A" -> "a" [] c = "B" -> "b" [] c = "O" -> "o" [] c = "Z" -> "z"
      [] c = "Pirates" -> "pirates" [] c = "Treasure" -> "treasure"
      [] OTHER -> c

upperAtom(c) ==
    CASE c = "a" -> "A" [] c = "b" -> "B" [] c = "o" -> "O" [] c = "z" -> "Z"
      [] c = "pirates" -> "Pirates" [] c = "treasure" -> "Treasure"
      [] OTHER -> c

IsCased(c) == c \in LowerCase \cup UpperCase

\* str.lower()
lower(t) == [i \in 1..Len(t) |-> lowerAtom(t[i])]

\* str.title(): a cased character is upper-cased after an uncased one (or at
\* the start) and lower-cased after a cased one.
title(t) ==
    [i \in 1..Len(t) |->
        IF ~IsCased(t[i]) THEN t[i]
        ELSE IF i > 1 /\ IsCased(t[i-1]) THEN lowerAtom(t[i]) ELSE upperAtom(t[i])]

\* str.lstrip(), str.rstrip() and str.strip()
RECURSIVE lstrip(_)
lstrip(t) == IF t # <<>> /\ isspace(Head(t)) THEN lstrip(Tail(t)) ELSE t

RECURSIVE rstrip(_)
rstrip(t) == IF t # <<>> /\ isspace(t[Len(t)]) THEN rstrip(SubSeq(t, 1, Len(t) - 1)) ELSE t

strip(t) == rstrip(lstrip(t))

\* `sub in t`
Contains(t, sub) ==
    \E i \in 0..(Len(t) - Len(sub)) : SubSeq(t, i + 1, i + Len(sub)) = sub

\* len(t.split()): the number of maximal runs of non-whitespace
WordCount(t) ==
    Cardinality({i \in 1..Len(t) : ~isspace(t[i]) /\ (i = 1 \/ isspace(t[i-1]))})

\* Texts of at most n atoms over the alphabet
RECURSIVE TextsUpTo(_, _)
TextsUpTo(alphabet, n) ==
    IF n = 0 THEN {<<>>}
    ELSE LET shorter == TextsUpTo(alphabet, n - 1)
         IN  shorter \cup {Append(t, c) : t \in {u \in shorter : Len(u) = n - 1}, c \in alphabet}

\* ------------------------------------------------------------------------
\* Inputs of the application
\* ------------------------------------------------------------------------
NameChars == {"a", "B", "7", " ", "-", "'"}
Names == TextsUpTo(NameChars, MaxNameLen)
QuotaNames == {n \in Names : Len(n) = 1}

Pirates == <<"Pirates", " ", "&", " ", "Treasure">>
Custom == <<"Custom">>
Themes == {Pirates, Custom}
CustomThemes == {<<>>, <<" ">>, <<"Z", "o", "o">>}

Unset == "<unset>"
KeyValues == {Unset, "", "gsk_test"}

\* Python truthiness of an environment value
Falsy(v) == v \in {Unset, ""}

\* An exception: its class and str(e)
Exc(type, msg) == [type |-> type, msg |-> msg]
NoError == Exc("None", <<>>)

\* What chat.completions.create can raise
LLMErrors ==
    {Exc("APIConnectionError", <<"Connection error.">>),
     Exc("AuthenticationError", <<"Error code: 401 - invalid ", "API key">>)}

Pad(n) == [i \in 1..n |-> "."]

\* What the chat completion can answer for a child called `name`
LLMContents(name) ==
    {Pad(MIN_STORY_LENGTH - 1),
     Pad(MIN_STORY_LENGTH),
     <<" ">> \o name \o Pad(MIN_STORY_LENGTH - 1 - Len(name)) \o <<"\n">>,
     Pad(MIN_STORY_LENGTH - Len(name)) \o lower(name)}

\* What TTSEngine.generate_audio can do: return a path or raise
AudioPath == <<"/tmp/tmpstory.mp3">>
AudioNone == <<>>
TTSErrors ==
    {Exc("ModuleNotFoundError", <<"No module named 'edge_tts'">>),
     Exc("RuntimeError", <<"TTS ", "API key", " rejected">>)}

\* ------------------------------------------------------------------------
\* src/src/story_generator.py
\* ------------------------------------------------------------------------
MissingKeyError ==
    Exc("ValueError",
        <<"Groq ", "API key", " is required. Set ", "GROQ_API_KEY",
          " environment variable ", "or pass api_key parameter.">>)

\* StoryGenerator(): the instance, or the exception __init__ raises
StoryGenerator_init(key) ==
    IF Falsy(key)
    THEN [raised |-> TRUE, exc |-> MissingKeyError, instance |-> None]
    ELSE [raised |-> FALSE, exc |-> NoError,
          instance |-> [api_key |-> key, model |-> "llama-3.3-70b-versatile"]]

EmptyNameError == Exc("ValueError", <<"Child's name cannot be empty">>)
TooShortError == Exc("ValueError", <<"Generated story is too short">>)
NameMissingError == Exc("ValueError", <<"Story doesn't include child's name">>)

\* The name generate_story works with (line 52)
StoryName(child_name) == title(strip(child_name))

\* Mutant of ValidateStory: the name check is left out.
ValidateStory_NoNameCheck(content, name) ==
    LET story == strip(content)
    IN  IF Len(story) < MIN_STORY_LENGTH
        THEN [raised |-> TRUE, exc |-> TooShortError, story |-> <<>>]
        ELSE [raised |-> FALSE, exc |-> NoError, story |-> story]

\* Lines 74-84 of one attempt: the story, or the validation error raised
ValidateStory(content, name) ==
    LET story == strip(content)
    IN  IF Len(story) < MIN_STORY_LENGTH
        THEN [raised |-> TRUE, exc |-> TooShortError, story |-> <<>>]
        ELSE IF ~Contains(lower(story), lower(name))
        THEN [raised |-> TRUE, exc |-> NameMissingError, story |-> <<>>]
        ELSE [raised |-> FALSE, exc |-> NoError, story |-> story]

\* The exception generate_story raises after the last attempt (lines 90-92)
RetriesExhausted(max_retries, e) ==
    Exc("Exception",
        <<"Failed to generate story after ", ToString(max_retries + 1), " attempts: ">>
        \o e.msg)

\* ------------------------------------------------------------------------
\* src/app.py
\* ------------------------------------------------------------------------
IsDemoMode_Never(key) == FALSE

\* DEMO_MODE = not os.environ.get("GROQ_API_KEY")
IsDemoMode(key) == Falsy(key)

generate_demo_story(child_name, theme) ==
    <<"Once", " ", "upon", " ", "a", " ", "time,", " ", "in", " ", "a", " ", "land",
       " ", "filled", " ", "with", " ", "wonder", " ", "and", " ", "magic,", " ",
       "there", " ", "lived", " ", "a", " ", "brave", " ", "young", " ", "adventurer",
       " ", "named", " ">>
    \o child_name
    \o <<".", "\n\n">>
    \o child_name
    \o <<" ", "had", " ", "always", " ", "dreamed", " ", "of", " ", "going", " ", "on",
       " ", "a", " ">>
    \o lower(theme)
    \o <<" ", "adventure.", " ", "One", " ", "sunny", " ", "morning,", " ">>
    \o child_name
    \o <<" ", "woke", " ", "up", " ", "to", " ", "find", " ", "a", " ", "mysterious",
       " ", "golden", " ", "envelope", " ", "on", " ", "their", " ", "pillow.",
       "\n\n", "\"Dear", " ">>
    \o child_name
    \o <<",\"", " ", "the", " ", "letter", " ", "read,", " ", "\"You", " ", "have", " ",
       "been", " ", "chosen", " ", "for", " ", "a", " ", "special", " ", "quest!\"",
       "\n\n", "With", " ", "excitement", " ", "bubbling", " ", "in", " ", "their",
       " ", "heart,", " ">>
    \o child_name
    \o <<" ", "packed", " ", "a", " ", "small", " ", "bag", " ", "with", " ", "snacks",
       " ", "and", " ", "their", " ", "favorite", " ", "toy.", " ", "The", " ",
       "adventure", " ", "was", " ", "about", " ", "to", " ", "begin!", "\n\n",
       "Along", " ", "the", " ", "way,", " ">>
    \o child_name
    \o <<" ", "met", " ", "friendly", " ", "creatures", " ", "who", " ", "helped", " ",
       "guide", " ", "the", " ", "path.", " ", "There", " ", "was", " ", "a", " ",
       "wise", " ", "owl", " ", "who", " ", "shared", " ", "secrets", " ", "of", " ",
       "the", " ", "forest,", " ", "and", " ", "a", " ", "playful", " ", "bunny", " ",
       "who", " ", "knew", " ", "all", " ", "the", " ", "shortcuts.", "\n\n",
       "\"You're", " ", "very", " ", "brave,", " ">>
    \o child_name
    \o <<"!\"", " ", "said", " ", "the", " ", "owl.", " ", "\"Keep", " ", "going,", " ",
       "you're", " ", "almost", " ", "there!\"", "\n\n", "Finally,", " ", "after",
       " ", "climbing", " ", "over", " ", "mossy", " ", "logs", " ", "and", " ",
       "crossing", " ", "a", " ", "sparkling", " ", "stream,", " ">>
    \o child_name
    \o <<" ", "reached", " ", "the", " ", "treasure", " ", "-", " ", "a", " ",
       "beautiful", " ", "chest", " ", "filled", " ", "with", " ", "the", " ", "most",
       " ", "precious", " ", "thing", " ", "of", " ", "all:", " ", "memories", " ",
       "of", " ", "this", " ", "wonderful", " ", "adventure.", "\n\n", "As", " ",
       "the", " ", "stars", " ", "began", " ", "to", " ", "twinkle", " ", "in", " ",
       "the", " ", "evening", " ", "sky,", " ">>
    \o child_name
    \o <<" ", "headed", " ", "home,", " ", "heart", " ", "full", " ", "of", " ", "joy.",
       " ", "Snuggling", " ", "into", " ", "bed,", " ">>
    \o child_name
    \o <<" ", "closed", " ", "their", " ", "eyes", " ", "and", " ", "dreamed", " ",
       "of", " ", "tomorrow's", " ", "adventures.", "\n\n", "The", " ", "End.",
       "\n\n", "Sweet", " ", "dreams,", " ">>
    \o child_name
    \o <<".">>

NameRequired == <<"Please enter your child's name.">>
NameInvalid == <<"Please enter a valid name (letters only).">>
ThemeRequired == <<"Please select a theme or enter a custom theme.">>
ServiceUnavailable == <<"Service temporarily unavailable. Please try again later.">>
DemoNote == <<"\n\n", "*Demo mode - set ", "GROQ_API_KEY", " for AI-generated stories*">>
AudioNote == <<"\n\n", "*Audio generation requires edge-tts*">>

Result(story, audio, status) == [story |-> story, audio |-> audio, status |-> status]
NoResult == Result(<<>>, AudioNone, <<>>)

\* Mutant of CleanName: only letters are kept.
CleanName_LettersOnly(child_name) ==
    SelectSeq(child_name, LAMBDA c : isalpha(c))

\* clean_name (line 178): letters, spaces, hyphens and apostrophes are kept
CleanName(child_name) ==
    SelectSeq(child_name, LAMBDA c : isalpha(c) \/ c \in {" ", "-", "'"})

\* final_theme (line 183)
FinalTheme(theme, custom_theme) ==
    IF theme = Custom THEN strip(custom_theme) ELSE theme

\* Word counts below 400 for which the float expression
\* int((word_count / 130 % 1) * 60) is one less than the exact quotient.
FloatRoundsDown == {156, 182, 247, 299, 312, 364, 377}

\* duration_str (lines 216-218)
DurationStr(story) ==
    LET word_count == WordCount(story)
        exact == ((word_count % WORDS_PER_MINUTE) * 60) \div WORDS_PER_MINUTE
        seconds == IF word_count \in FloatRoundsDown THEN exact - 1 ELSE exact
    IN  <<ToString(word_count \div WORDS_PER_MINUTE), " min ", ToString(seconds), " sec">>

\* status_msg (lines 220-226)
StatusMsg(name, story, audio, demo) ==
    <<"Story created for ">> \o name \o <<"!", "\n\n", "Duration: ~">>
    \o DurationStr(story)
    \o (IF demo THEN DemoNote ELSE <<>>)
    \o (IF audio = AudioNone THEN AudioNote ELSE <<>>)

\* Mutant of ErrorResult: the exception text is never replaced.
ErrorResult_Unmasked(e) ==
    Result(<<>>, AudioNone, <<"Oops! ">> \o e.msg)

\* The outer except clause (lines 230-234)
ErrorResult(e) ==
    LET error_msg ==
            IF Contains(e.msg, <<"API key">>) \/ Contains(e.msg, <<"GROQ_API_KEY">>)
            THEN ServiceUnavailable
            ELSE e.msg
    IN  Result(<<>>, AudioNone, <<"Oops! ">> \o error_msg)

\* Mutant of AudioStep: a TTS exception reaches the outer except clause.
AudioStep_Propagates(name, story, demo, outcome) ==
    IF outcome.raised
    THEN ErrorResult(outcome.exc)
    ELSE Result(story, outcome.path, StatusMsg(name, story, outcome.path, demo))

\* Step 2 and the return (lines 202-228): a TTS exception is caught, audio_path
\* stays None and the story is returned.
AudioStep(name, story, demo, outcome) ==
    LET audio_path == IF outcome.raised THEN AudioNone ELSE outcome.path
    IN  Result(story, audio_path, StatusMsg(name, story, audio_path, demo))

TTSOutcomes ==
    {[raised |-> FALSE, exc |-> NoError, path |-> AudioPath]}
    \cup {[raised |-> TRUE, exc |-> e, path |-> AudioNone] : e \in TTSErrors}

NoRequest == [child_name |-> <<>>, theme |-> <<>>, custom_theme |-> <<>>]

NoCall == [none |-> TRUE]

\* The application before its first request, with the environment value `key`
AppStart(key) ==
    /\ GROQ_API_KEY = key
    /\ DEMO_MODE = IsDemoMode(key)
    /\ story_generator = None
    /\ tts_engine = None
    /\ pc = "idle"
    /\ req = NoRequest
    /\ clean_name = <<>>
    /\ generation = "none"
    /\ attempt = 0
    /\ last_error = NoError
    /\ story_text = <<>>
    /\ tts_error = NoError
    /\ llm_calls = 0
    /\ tts_calls = 0
    /\ result = NoResult
    /\ storiesReturned = 0

\* The rate limiter before any call, outside the specifications about it
RLStart ==
    /\ today = 1
    /\ state = None
    /\ call = NoCall
    /\ runAllowed = 0
    /\ runBlocked = FALSE

\* What generate_story returned: a story, or None
Returned(story) == [none |-> FALSE, story |-> story]
ReturnedNone == [none |-> TRUE, story |-> <<>>]

\* generate_story before it is called with child_name and retries
RetryStart(child_name, retries) ==
    /\ gs_child_name = child_name
    /\ gs_max_retries = retries
    /\ gs_pc = "ready"
    /\ gs_attempt = 0
    /\ gs_last_error = NoError
    /\ gs_requests = 0
    /\ gs_passed = 0
    /\ gs_value = ReturnedNone
    /\ gs_raised = NoError

NoLazyCall == [fn |-> "none", before |-> None, raised |-> FALSE, exc |-> NoError,
               value |-> None, constructed |-> FALSE]

\* The lazy globals before any get_* call
LazyStart ==
    /\ lazy_calls = 0
    /\ sg_constructions = 0
    /\ sg_built = 0
    /\ tts_built = 0
    /\ lazy_last = NoLazyCall

\* No check_and_update call is running
RaceStart ==
    /\ rc_pc = [t \in Threads |-> "idle"]
    /\ rc_today = [t \in Threads |-> 1]
    /\ rc_stories = [t \in Threads |-> 0]
    /\ race_calls = 0
    /\ race_allowed = [d \in Days |-> 0]

NoOutcome == [raised |-> FALSE, exc |-> NoError, none |-> TRUE]
NoExt == [gen |-> NoOutcome, tts |-> NoOutcome]

\* No request is being handled
ConcStart ==
    /\ cc_pc = [t \in Threads |-> "idle"]
    /\ cc_req = [t \in Threads |-> NoRequest]
    /\ cc_attempt = [t \in Threads |-> 0]
    /\ cc_story = [t \in Threads |-> <<>>]
    /\ cc_generator = [t \in Threads |-> None]
    /\ cc_tts = [t \in Threads |-> None]
    /\ cc_ext = [t \in Threads |-> NoExt]
    /\ cc_result = [t \in Threads |-> NoResult]
    /\ cc_access = [t \in Threads |-> {}]
    /\ cc_writes = [t \in Threads |-> {}]

\* _split_into_chunks about to be called with `text` and `chunk_size`
SplitStart(text, chunk_size) ==
    /\ sp_text = text
    /\ sp_chunk_size = chunk_size
    /\ sp_pc = "ready"
    /\ sp_chunks = <<>>

NoOutput == [none |-> TRUE]

\* generate_audio_chunks about to be called with `text` and `chunk_size`
GacStart(text, chunk_size) ==
    /\ ga_text = text
    /\ ga_chunk_size = chunk_size
    /\ ga_pc = "ready"
    /\ ga_chunks = <<>>
    /\ ga_audio_files = <<>>
    /\ ga_spoken = <<>>
    /\ ga_tmp = {}
    /\ ga_output = NoOutput
    /\ ga_raised = NoError

\* The parts of the model a specification about another part leaves alone
ExtStart ==
    /\ RetryStart(<<>>, DEFAULT_MAX_RETRIES)
    /\ LazyStart
    /\ RaceStart
    /\ ConcStart
    /\ SplitStart(<<>>, DEFAULT_CHUNK_SIZE)
    /\ GacStart(<<>>, DEFAULT_CHUNK_SIZE)

InitRL ==
    /\ AppStart(Unset)
    /\ ExtStart
    /\ today \in Days
    /\ state \in {None} \cup {get_initial_state(id, today) : id \in SessionIds}
    /\ call = NoCall
    /\ runAllowed = 0
    /\ runBlocked = FALSE

\* One check_and_update call on the session; the caller keeps the returned state.
\* For a None state the call reads the date twice (lines 32 and 48); a date that
\* changes in between is reset to the second reading by the rollover, so one
\* reading stands for both.
CheckAndUpdate ==
    \E id \in SessionIds :
        LET r == check_and_update(state, id, today)
        IN  /\ state' = r.state
            /\ call' = [pre |-> state, date |-> today, ret |-> r]
            /\ runAllowed' = IF r.allowed THEN runAllowed + 1 ELSE runAllowed
            /\ runBlocked' = (runBlocked \/ ~r.allowed)
            /\ UNCHANGED today
            /\ UNCHANGED <<appVars, extVars>>

\* The host clock moves to another date.
DateChange ==
    \E d \in Days \ {today} :
        /\ today' = d
        /\ runAllowed' = 0
        /\ runBlocked' = FALSE
        /\ UNCHANGED <<state, call>>
        /\ UNCHANGED <<appVars, extVars>>

NextRL == CheckAndUpdate \/ DateChange

Spec == InitRL /\ [][NextRL]_vars

\* ------------------------------------------------------------------------
\* The request handler generate_story_and_audio (src/app.py), step by step:
\* Submit runs the handler up to the first chat-completion request (or to its
\* return), LLMAttempt is one iteration of the retry loop of generate_story,
\* Audio is the TTS call and the return, Deliver hands the tuple to the UI.
\* ------------------------------------------------------------------------
InitApp ==
    /\ \E key \in KeyValues : AppStart(key)
    /\ ExtStart
    /\ today = 1
    /\ state = None
    /\ call = NoCall
    /\ runAllowed = 0
    /\ runBlocked = FALSE

\* The handler from its entry to the first LLM request, the demo story or an
\* early return (lines 173-200, story_generator.py lines 51-58).
SubmitOutcome(child_name, theme, custom_theme) ==
    LET cleaned == CleanName(child_name)
        final_theme == FinalTheme(theme, custom_theme)
        built == StoryGenerator_init(GROQ_API_KEY)
        stop(res, cn, gen, sg) ==
            [pc |-> "done", result |-> res, clean_name |-> cn, generation |-> gen,
             story_text |-> <<>>, story_generator |-> sg]
    IN  IF child_name = <<>> \/ strip(child_name) = <<>>
        THEN stop(Result(<<>>, AudioNone, NameRequired), <<>>, "none", story_generator)
        ELSE IF cleaned = <<>>
        THEN stop(Result(<<>>, AudioNone, NameInvalid), <<>>, "none", story_generator)
        ELSE IF final_theme = <<>>
        THEN stop(Result(<<>>, AudioNone, ThemeRequired), cleaned, "none", story_generator)
        ELSE IF DEMO_MODE
        THEN [pc |-> "tts", result |-> NoResult, clean_name |-> cleaned,
              generation |-> "demo",
              story_text |-> generate_demo_story(cleaned, final_theme),
              story_generator |-> story_generator]
        ELSE IF story_generator = None /\ built.raised
        THEN stop(ErrorResult(built.exc), cleaned, "none", None)
        ELSE LET generator == IF story_generator = None THEN built.instance
                              ELSE story_generator
             IN  IF StoryName(cleaned) = <<>>
                 THEN stop(ErrorResult(EmptyNameError), cleaned, "llm", generator)
                 ELSE [pc |-> "llm", result |-> NoResult, clean_name |-> cleaned,
                       generation |-> "llm", story_text |-> <<>>,
                       story_generator |-> generator]

SubmitFrom(names) ==
    /\ pc = "idle"
    /\ \E child_name \in names, theme \in Themes, custom_theme \in CustomThemes :
        LET out == SubmitOutcome(child_name, theme, custom_theme)
        IN  /\ req' = [child_name |-> child_name, theme |-> theme,
                       custom_theme |-> custom_theme]
            /\ pc' = out.pc
            /\ result' = out.result
            /\ clean_name' = out.clean_name
            /\ generation' = out.generation
            /\ story_text' = out.story_text
            /\ story_generator' = out.story_generator
    /\ attempt' = 0
    /\ last_error' = NoError
    /\ UNCHANGED <<GROQ_API_KEY, DEMO_MODE, tts_engine, tts_error, llm_calls,
                   tts_calls, storiesReturned>>
    /\ UNCHANGED <<today, state, call, runAllowed, runBlocked, extVars>>

Submit == SubmitFrom(Names)

\* What one chat-completion request and its validation can yield
AttemptOutcomes(name) ==
    {[raised |-> TRUE, exc |-> e, story |-> <<>>] : e \in LLMErrors}
    \cup {ValidateStory(content, name) : content \in LLMContents(name)}

\* One iteration of the retry loop (story_generator.py lines 61-92)
LLMAttempt ==
    /\ pc = "llm"
    /\ \E o \in AttemptOutcomes(StoryName(clean_name)) :
        /\ llm_calls' = llm_calls + 1
        /\ IF ~o.raised
           THEN /\ story_text' = o.story
                /\ pc' = "tts"
                /\ UNCHANGED <<attempt, last_error, result>>
           ELSE /\ last_error' = o.exc
                /\ UNCHANGED story_text
                /\ IF attempt < DEFAULT_MAX_RETRIES
                   THEN /\ attempt' = attempt + 1
                        /\ UNCHANGED <<pc, result>>
                   ELSE /\ result' = ErrorResult(RetriesExhausted(DEFAULT_MAX_RETRIES, o.exc))
                        /\ pc' = "done"
                        /\ UNCHANGED attempt
    /\ UNCHANGED <<GROQ_API_KEY, DEMO_MODE, story_generator, tts_engine, req, clean_name,
                   generation, tts_error, tts_calls, storiesReturned>>
    /\ UNCHANGED <<today, state, call, runAllowed, runBlocked, extVars>>

\* get_tts_engine(), tts.generate_audio(...) and the return (lines 202-228)
AudioCall ==
    /\ pc = "tts"
    /\ \E o \in TTSOutcomes :
        /\ tts_error' = o.exc
        /\ result' = AudioStep(clean_name, story_text, DEMO_MODE, o)
    /\ tts_engine' = [class |-> "TTSEngine"]
    /\ tts_calls' = tts_calls + 1
    /\ pc' = "done"
    /\ UNCHANGED <<GROQ_API_KEY, DEMO_MODE, story_generator, req, clean_name, generation,
                   attempt, last_error, story_text, llm_calls>>
    /\ UNCHANGED <<state, call, runAllowed, runBlocked, extVars>>

Audio == AudioCall /\ UNCHANGED <<today, storiesReturned>>

\* The tuple reaches the outputs of generate_btn.click; the locals are gone.
Deliver ==
    /\ pc = "done"
    /\ pc' = "idle"
    /\ req' = NoRequest
    /\ clean_name' = <<>>
    /\ generation' = "none"
    /\ attempt' = 0
    /\ last_error' = NoError
    /\ story_text' = <<>>
    /\ tts_error' = NoError
    /\ llm_calls' = 0
    /\ tts_calls' = 0
    /\ result' = NoResult
    /\ UNCHANGED <<GROQ_API_KEY, DEMO_MODE, story_generator, tts_engine, storiesReturned>>
    /\ UNCHANGED <<today, state, call, runAllowed, runBlocked, extVars>>

NextApp == Submit \/ LLMAttempt \/ Audio \/ Deliver

AppSpec == InitApp /\ [][NextApp]_vars

\* ------------------------------------------------------------------------
\* The requests of one session, counted per date.  The handler reads neither
\* a session state nor the date (generate_btn.click passes it the six form
\* fields only, app.py lines 352-356), so the count is kept beside it.
\* ------------------------------------------------------------------------
SubmitQuota ==
    /\ storiesReturned < MaxStoriesReturned
    /\ SubmitFrom(QuotaNames)

AudioQuota ==
    /\ AudioCall
    /\ storiesReturned' = IF result'.story # <<>> THEN storiesReturned + 1
                          ELSE storiesReturned
    /\ UNCHANGED today

DateChangeQuota ==
    /\ pc = "idle"
    /\ \E d \in Days \ {today} : today' = d
    /\ storiesReturned' = 0
    /\ UNCHANGED <<state, call, runAllowed, runBlocked, extVars>>
    /\ UNCHANGED <<GROQ_API_KEY, DEMO_MODE, story_generator, tts_engine, pc, req,
                   clean_name, generation, attempt, last_error, story_text, tts_error,
                   llm_calls, tts_calls, result>>

NextQuota == SubmitQuota \/ LLMAttempt \/ AudioQuota \/ Deliver \/ DateChangeQuota

QuotaSpec == InitApp /\ [][NextQuota]_vars

\* ------------------------------------------------------------------------
\* StoryGenerator.generate_story (src/src/story_generator.py lines 28-92) called
\* with any child_name and any max_retries: GsEnter is lines 51-61 up to the
\* first iteration, GsAttempt one iteration of the loop.
\* ------------------------------------------------------------------------
RetryNames == {n \in Names : Len(n) <= 1}
RetryValues == (-2)..MaxRetries

InitRetry ==
    /\ AppStart(Unset)
    /\ RLStart
    /\ LazyStart
    /\ RaceStart
    /\ ConcStart
    /\ SplitStart(<<>>, DEFAULT_CHUNK_SIZE)
    /\ GacStart(<<>>, DEFAULT_CHUNK_SIZE)
    /\ \E child_name \in RetryNames, retries \in RetryValues :
            RetryStart(child_name, retries)

\* Mutant of RetryAgain: the last attempt is retried too.
RetryAgain_OneMore(att, retries) == att <= retries

\* `if attempt < max_retries: continue` (lines 88-89)
RetryAgain(att, retries) == att < retries

\* Lines 51-61: the name check, then range(max_retries + 1) yields its first
\* value or is empty, in which case the function body ends without a return.
GsEnter ==
    /\ gs_pc = "ready"
    /\ IF StoryName(gs_child_name) = <<>>
       THEN /\ gs_pc' = "raised"
            /\ gs_raised' = EmptyNameError
            /\ UNCHANGED gs_value
       ELSE IF gs_max_retries + 1 <= 0
       THEN /\ gs_pc' = "returned"
            /\ gs_value' = ReturnedNone
            /\ UNCHANGED gs_raised
       ELSE /\ gs_pc' = "loop"
            /\ UNCHANGED <<gs_value, gs_raised>>
    /\ UNCHANGED <<gs_child_name, gs_max_retries, gs_attempt, gs_last_error, gs_requests,
                   gs_passed>>
    /\ UNCHANGED <<today, rlVars, appVars, lazyVars, raceVars, concVars,
                   splitVars, gacVars>>

\* Lines 62-92: one request, its validation, and the return, the continue or
\* the final raise.
GsAttempt ==
    /\ gs_pc = "loop"
    /\ \E o \in AttemptOutcomes(StoryName(gs_child_name)) :
        /\ gs_requests' = gs_requests + 1
        /\ IF ~o.raised
           THEN /\ gs_value' = Returned(o.story)
                /\ gs_pc' = "returned"
                /\ gs_passed' = IF gs_passed = 0 THEN gs_requests + 1 ELSE gs_passed
                /\ UNCHANGED <<gs_attempt, gs_last_error, gs_raised>>
           ELSE /\ gs_last_error' = o.exc
                /\ UNCHANGED <<gs_value, gs_passed>>
                /\ IF RetryAgain(gs_attempt, gs_max_retries)
                   THEN /\ gs_attempt' = gs_attempt + 1
                        /\ UNCHANGED <<gs_pc, gs_raised>>
                   ELSE /\ gs_raised' = RetriesExhausted(gs_max_retries, o.exc)
                        /\ gs_pc' = "raised"
                        /\ UNCHANGED gs_attempt
    /\ UNCHANGED <<gs_child_name, gs_max_retries>>
    /\ UNCHANGED <<today, rlVars, appVars, lazyVars, raceVars, concVars,
                   splitVars, gacVars>>

NextRetry == GsEnter \/ GsAttempt

RetrySpec == InitRetry /\ [][NextRetry]_vars

\* ------------------------------------------------------------------------
\* The lazy globals of src/app.py under sequential get_story_generator() and
\* get_tts_engine() calls, in any environment: os.environ is writable, and
\* StoryGenerator() reads GROQ_API_KEY whenever it is constructed.
\* ------------------------------------------------------------------------
InitLazy ==
    /\ \E key \in KeyValues : AppStart(key)
    /\ RLStart
    /\ RetryStart(<<>>, DEFAULT_MAX_RETRIES)
    /\ LazyStart
    /\ RaceStart
    /\ ConcStart
    /\ SplitStart(<<>>, DEFAULT_CHUNK_SIZE)
    /\ GacStart(<<>>, DEFAULT_CHUNK_SIZE)

\* Mutant of get_story_generator: the global is not tested, every call builds.
get_story_generator_AlwaysBuilds(global, key) ==
    LET built == StoryGenerator_init(key)
    IN  IF built.raised
        THEN [raised |-> TRUE, exc |-> built.exc, value |-> None, global |-> global,
              constructed |-> TRUE]
        ELSE [raised |-> FALSE, exc |-> NoError, value |-> built.instance,
              global |-> built.instance, constructed |-> TRUE]

\* get_story_generator() (lines 124-129): what it returns or raises, the global
\* afterwards, and whether StoryGenerator() was called
get_story_generator(global, key) ==
    LET built == StoryGenerator_init(key)
    IN  IF global # None
        THEN [raised |-> FALSE, exc |-> NoError, value |-> global, global |-> global,
              constructed |-> FALSE]
        ELSE IF built.raised
        THEN [raised |-> TRUE, exc |-> built.exc, value |-> None, global |-> None,
              constructed |-> TRUE]
        ELSE [raised |-> FALSE, exc |-> NoError, value |-> built.instance,
              global |-> built.instance, constructed |-> TRUE]

\* TTSEngine() (tts_engine.py lines 605-607)
TTSEngine_init == [class |-> "TTSEngine"]

\* get_tts_engine() (lines 132-137)
get_tts_engine(global) ==
    IF global # None
    THEN [raised |-> FALSE, exc |-> NoError, value |-> global, global |-> global,
          constructed |-> FALSE]
    ELSE [raised |-> FALSE, exc |-> NoError, value |-> TTSEngine_init,
          global |-> TTSEngine_init, constructed |-> TRUE]

GetStoryGenerator ==
    /\ lazy_calls < MaxLazyCalls
    /\ LET r == get_story_generator(story_generator, GROQ_API_KEY)
       IN  /\ story_generator' = r.global
           /\ sg_constructions' = IF r.constructed THEN sg_constructions + 1
                                  ELSE sg_constructions
           /\ sg_built' = IF r.constructed /\ ~r.raised THEN sg_built + 1 ELSE sg_built
           /\ lazy_last' = [fn |-> "story", before |-> story_generator, raised |-> r.raised,
                            exc |-> r.exc, value |-> r.value, constructed |-> r.constructed]
    /\ lazy_calls' = lazy_calls + 1
    /\ UNCHANGED <<GROQ_API_KEY, DEMO_MODE, tts_engine, pc, req, clean_name, generation,
                   attempt, last_error, story_text, tts_error, llm_calls, tts_calls,
                   result, storiesReturned, tts_built>>
    /\ UNCHANGED <<today, rlVars, retryVars, raceVars, concVars, splitVars, gacVars>>

GetTtsEngine ==
    /\ lazy_calls < MaxLazyCalls
    /\ LET r == get_tts_engine(tts_engine)
       IN  /\ tts_engine' = r.global
           /\ tts_built' = IF r.constructed THEN tts_built + 1 ELSE tts_built
           /\ lazy_last' = [fn |-> "tts", before |-> tts_engine, raised |-> r.raised,
                            exc |-> r.exc, value |-> r.value, constructed |-> r.constructed]
    /\ lazy_calls' = lazy_calls + 1
    /\ UNCHANGED <<GROQ_API_KEY, DEMO_MODE, story_generator, pc, req, clean_name,
                   generation, attempt, last_error, story_text, tts_error, llm_calls,
                   tts_calls, result, storiesReturned, sg_constructions, sg_built>>
    /\ UNCHANGED <<today, rlVars, retryVars, raceVars, concVars, splitVars, gacVars>>

\* The environment variable is set, changed or removed between two calls.
SetEnv ==
    /\ \E key \in KeyValues \ {GROQ_API_KEY} : GROQ_API_KEY' = key
    /\ UNCHANGED <<DEMO_MODE, story_generator, tts_engine, pc, req, clean_name,
                   generation, attempt, last_error, story_text, tts_error, llm_calls,
                   tts_calls, result, storiesReturned>>
    /\ UNCHANGED <<today, rlVars, retryVars, lazyVars, raceVars, concVars, splitVars,
                   gacVars>>

NextLazy == GetStoryGenerator \/ GetTtsEngine \/ SetEnv

LazySpec == InitLazy /\ [][NextLazy]_vars

\* ------------------------------------------------------------------------
\* RateLimiter.check_and_update called by several threads on one session
\* dict.  The function takes no lock, so every read and every write of the
\* dict is a step of its own and the threads' steps interleave.
\* ------------------------------------------------------------------------
InitRace ==
    /\ AppStart(Unset)
    /\ RetryStart(<<>>, DEFAULT_MAX_RETRIES)
    /\ LazyStart
    /\ ConcStart
    /\ SplitStart(<<>>, DEFAULT_CHUNK_SIZE)
    /\ GacStart(<<>>, DEFAULT_CHUNK_SIZE)
    /\ today = 1
    /\ rc_pc = [t \in Threads |-> "idle"]
    /\ rc_today = [t \in Threads |-> 1]
    /\ rc_stories = [t \in Threads |-> 0]
    /\ race_calls = 0
    \* the session dict after 'done' sequential allowed calls on the first date
    /\ \E id \in SessionIds, done \in 0..MAX_STORIES_PER_DAY :
            /\ state = [get_initial_state(id, today) EXCEPT
                            !.stories_generated_today = done]
            /\ race_allowed = [d \in Days |-> IF d = today THEN done ELSE 0]
    /\ call = NoCall
    /\ runAllowed = 0
    /\ runBlocked = FALSE

RaceFrame ==
    UNCHANGED <<call, runAllowed, runBlocked, appVars, retryVars, lazyVars, concVars,
                splitVars, gacVars>>

\* line 48: today = date.today().isoformat()
RcCall(t) ==
    /\ rc_pc[t] = "idle"
    /\ race_calls < MaxRaceCalls
    /\ race_calls' = race_calls + 1
    /\ rc_today' = [rc_today EXCEPT ![t] = today]
    /\ rc_pc' = [rc_pc EXCEPT ![t] = "check_date"]
    /\ UNCHANGED <<today, state, rc_stories, race_allowed>>
    /\ RaceFrame

\* line 51: if state.get("last_generation_date") != today
RcCheckDate(t) ==
    /\ rc_pc[t] = "check_date"
    /\ rc_pc' = [rc_pc EXCEPT ![t] = IF state.last_generation_date # rc_today[t]
                                     THEN "reset_count" ELSE "read"]
    /\ UNCHANGED <<today, state, rc_today, rc_stories, race_calls, race_allowed>>
    /\ RaceFrame

\* line 52: state["stories_generated_today"] = 0
RcResetCount(t) ==
    /\ rc_pc[t] = "reset_count"
    /\ state' = [state EXCEPT !.stories_generated_today = 0]
    /\ rc_pc' = [rc_pc EXCEPT ![t] = "reset_date"]
    /\ UNCHANGED <<today, rc_today, rc_stories, race_calls, race_allowed>>
    /\ RaceFrame

\* line 53: state["last_generation_date"] = today
RcResetDate(t) ==
    /\ rc_pc[t] = "reset_date"
    /\ state' = [state EXCEPT !.last_generation_date = rc_today[t]]
    /\ rc_pc' = [rc_pc EXCEPT ![t] = "read"]
    /\ UNCHANGED <<today, rc_today, rc_stories, race_calls, race_allowed>>
    /\ RaceFrame

\* line 55: stories_today = state.get("stories_generated_today", 0)
RcRead(t) ==
    /\ rc_pc[t] = "read"
    /\ rc_stories' = [rc_stories EXCEPT ![t] = state.stories_generated_today]
    /\ rc_pc' = [rc_pc EXCEPT ![t] = "compare"]
    /\ UNCHANGED <<today, state, rc_today, race_calls, race_allowed>>
    /\ RaceFrame

\* lines 58-76: the comparison of the local, then either the blocked return or
\* the write of stories_today + 1 and the allowed return
RcCompareWrite(t) ==
    /\ rc_pc[t] = "compare"
    /\ IF rc_stories[t] >= MAX_STORIES_PER_DAY
       THEN UNCHANGED <<state, race_allowed>>
       ELSE /\ state' = [state EXCEPT !.stories_generated_today = rc_stories[t] + 1]
            /\ race_allowed' = [race_allowed EXCEPT ![rc_today[t]] = @ + 1]
    /\ rc_pc' = [rc_pc EXCEPT ![t] = "idle"]
    /\ UNCHANGED <<today, rc_today, rc_stories, race_calls>>
    /\ RaceFrame

\* Midnight passes.
RaceDateChange ==
    /\ today < NumDays
    /\ today' = today + 1
    /\ UNCHANGED <<state, raceVars>>
    /\ RaceFrame

NextRace ==
    \/ \E t \in Threads :
          \/ RcCall(t)
          \/ RcCheckDate(t)
          \/ RcResetCount(t)
          \/ RcResetDate(t)
          \/ RcRead(t)
          \/ RcCompareWrite(t)
    \/ RaceDateChange

RaceSpec == InitRace /\ [][NextRace]_vars

\* ------------------------------------------------------------------------
\* generate_story_and_audio handled by several worker threads at once.  The
\* module globals story_generator and tts_engine are read and written by the
\* getters without a lock, so each test, each assignment and each return of a
\* getter is a step of its own.
\* ------------------------------------------------------------------------
ConcNames == {<<"a">>, <<"7">>}

\* The service answers the concurrent requests get: a connection error or a
\* valid story from the LLM, a file or a missing module from the TTS
ConcAttemptOutcomes(name) ==
    {o \in AttemptOutcomes(name) :
        IF o.raised THEN o.exc.type = "APIConnectionError" ELSE o.story[1] # "."}

ConcTTSOutcomes == {o \in TTSOutcomes : o.exc.type # "RuntimeError"}

InitConc ==
    /\ \E key \in {Unset, "gsk_test"} : AppStart(key)
    /\ RLStart
    /\ RetryStart(<<>>, DEFAULT_MAX_RETRIES)
    /\ LazyStart
    /\ RaceStart
    /\ ConcStart
    /\ SplitStart(<<>>, DEFAULT_CHUNK_SIZE)
    /\ GacStart(<<>>, DEFAULT_CHUNK_SIZE)

ConcFrame ==
    UNCHANGED <<today, rlVars, retryVars, lazyVars, raceVars, splitVars, gacVars,
                GROQ_API_KEY, DEMO_MODE,
                pc, req, clean_name, generation, attempt, last_error, story_text,
                tts_error, llm_calls, tts_calls, result, storiesReturned>>

\* Mutant of IsUnbuilt: the getters never find the global unset.
IsUnbuilt_Never(global) == FALSE

\* 'if story_generator is None' / 'if tts_engine is None' (lines 127, 135)
IsUnbuilt(global) == global = None

NoneHasNoAttribute(attr) ==
    Exc("AttributeError", <<"'NoneType' object has no attribute '", attr, "'">>)

\* The handler from its entry to the first getter or an early return
\* (lines 173-191)
CcSubmit(t) ==
    /\ cc_pc[t] = "idle"
    /\ \E child_name \in ConcNames :
        LET cleaned == CleanName(child_name)
            final_theme == FinalTheme(Pirates, <<>>)
            early(res) == /\ cc_result' = [cc_result EXCEPT ![t] = res]
                          /\ cc_pc' = [cc_pc EXCEPT ![t] = "done"]
                          /\ UNCHANGED cc_story
        IN  /\ cc_req' = [cc_req EXCEPT ![t] = [child_name |-> child_name,
                                                theme |-> Pirates,
                                                custom_theme |-> <<>>]]
            /\ IF child_name = <<>> \/ strip(child_name) = <<>>
               THEN early(Result(<<>>, AudioNone, NameRequired))
               ELSE IF cleaned = <<>>
               THEN early(Result(<<>>, AudioNone, NameInvalid))
               ELSE IF final_theme = <<>>
               THEN early(Result(<<>>, AudioNone, ThemeRequired))
               ELSE IF DEMO_MODE
               THEN /\ cc_story' = [cc_story EXCEPT ![t] =
                                        generate_demo_story(cleaned, final_theme)]
                    /\ cc_pc' = [cc_pc EXCEPT ![t] = "tts_check"]
                    /\ UNCHANGED cc_result
               ELSE /\ cc_pc' = [cc_pc EXCEPT ![t] = "sg_check"]
                    /\ UNCHANGED <<cc_story, cc_result>>
    /\ UNCHANGED <<story_generator, tts_engine, cc_attempt, cc_generator, cc_tts, cc_ext,
                   cc_access, cc_writes>>
    /\ ConcFrame

\* get_story_generator, line 127: the test of the global
CcSgCheck(t) ==
    /\ cc_pc[t] = "sg_check"
    /\ cc_pc' = [cc_pc EXCEPT ![t] = IF IsUnbuilt(story_generator) THEN "sg_build"
                                     ELSE "sg_return"]
    /\ cc_access' = [cc_access EXCEPT ![t] = @ \cup {"story_generator"}]
    /\ UNCHANGED <<story_generator, tts_engine, cc_req, cc_attempt, cc_story,
                   cc_generator, cc_tts, cc_ext, cc_result, cc_writes>>
    /\ ConcFrame

\* get_story_generator, line 128: story_generator = StoryGenerator()
CcSgBuild(t) ==
    /\ cc_pc[t] = "sg_build"
    /\ LET built == StoryGenerator_init(GROQ_API_KEY)
       IN  IF built.raised
           THEN /\ cc_result' = [cc_result EXCEPT ![t] = ErrorResult(built.exc)]
                /\ cc_pc' = [cc_pc EXCEPT ![t] = "done"]
                /\ UNCHANGED <<story_generator, cc_access, cc_writes>>
           ELSE /\ story_generator' = built.instance
                /\ cc_pc' = [cc_pc EXCEPT ![t] = "sg_return"]
                /\ cc_access' = [cc_access EXCEPT ![t] = @ \cup {"story_generator"}]
                /\ cc_writes' = [cc_writes EXCEPT ![t] = @ \cup {"story_generator"}]
                /\ UNCHANGED cc_result
    /\ UNCHANGED <<tts_engine, cc_req, cc_attempt, cc_story, cc_generator, cc_tts, cc_ext>>
    /\ ConcFrame

\* get_story_generator, line 129: return story_generator; then the entry of
\* generate_story (story_generator.py lines 51-58)
CcSgReturn(t) ==
    /\ cc_pc[t] = "sg_return"
    /\ cc_generator' = [cc_generator EXCEPT ![t] = story_generator]
    /\ cc_access' = [cc_access EXCEPT ![t] = @ \cup {"story_generator"}]
    /\ IF story_generator = None
       THEN /\ cc_result' = [cc_result EXCEPT ![t] =
                                ErrorResult(NoneHasNoAttribute("generate_story"))]
            /\ cc_pc' = [cc_pc EXCEPT ![t] = "done"]
       ELSE IF StoryName(CleanName(cc_req[t].child_name)) = <<>>
       THEN /\ cc_result' = [cc_result EXCEPT ![t] = ErrorResult(EmptyNameError)]
            /\ cc_pc' = [cc_pc EXCEPT ![t] = "done"]
       ELSE /\ cc_pc' = [cc_pc EXCEPT ![t] = "llm"]
            /\ UNCHANGED cc_result
    /\ UNCHANGED <<story_generator, tts_engine, cc_req, cc_attempt, cc_story, cc_tts,
                   cc_ext, cc_writes>>
    /\ ConcFrame

\* One iteration of the retry loop (story_generator.py lines 61-92)
CcLLMAttempt(t) ==
    /\ cc_pc[t] = "llm"
    /\ \E o \in ConcAttemptOutcomes(StoryName(CleanName(cc_req[t].child_name))) :
        IF ~o.raised
        THEN /\ cc_story' = [cc_story EXCEPT ![t] = o.story]
             /\ cc_ext' = [cc_ext EXCEPT ![t].gen = o]
             /\ cc_pc' = [cc_pc EXCEPT ![t] = "tts_check"]
             /\ UNCHANGED <<cc_attempt, cc_result>>
        ELSE IF RetryAgain(cc_attempt[t], DEFAULT_MAX_RETRIES)
        THEN /\ cc_attempt' = [cc_attempt EXCEPT ![t] = @ + 1]
             /\ UNCHANGED <<cc_story, cc_ext, cc_pc, cc_result>>
        ELSE /\ cc_ext' = [cc_ext EXCEPT ![t].gen = o]
             /\ cc_result' = [cc_result EXCEPT ![t] =
                                ErrorResult(RetriesExhausted(DEFAULT_MAX_RETRIES, o.exc))]
             /\ cc_pc' = [cc_pc EXCEPT ![t] = "done"]
             /\ UNCHANGED <<cc_story, cc_attempt>>
    /\ UNCHANGED <<story_generator, tts_engine, cc_req, cc_generator, cc_tts, cc_access,
                   cc_writes>>
    /\ ConcFrame

\* get_tts_engine, line 135: the test of the global
CcTtsCheck(t) ==
    /\ cc_pc[t] = "tts_check"
    /\ cc_pc' = [cc_pc EXCEPT ![t] = IF IsUnbuilt(tts_engine) THEN "tts_build"
                                     ELSE "tts_return"]
    /\ cc_access' = [cc_access EXCEPT ![t] = @ \cup {"tts_engine"}]
    /\ UNCHANGED <<story_generator, tts_engine, cc_req, cc_attempt, cc_story,
                   cc_generator, cc_tts, cc_ext, cc_result, cc_writes>>
    /\ ConcFrame

\* get_tts_engine, line 136: tts_engine = TTSEngine()
CcTtsBuild(t) ==
    /\ cc_pc[t] = "tts_build"
    /\ tts_engine' = TTSEngine_init
    /\ cc_pc' = [cc_pc EXCEPT ![t] = "tts_return"]
    /\ cc_access' = [cc_access EXCEPT ![t] = @ \cup {"tts_engine"}]
    /\ cc_writes' = [cc_writes EXCEPT ![t] = @ \cup {"tts_engine"}]
    /\ UNCHANGED <<story_generator, cc_req, cc_attempt, cc_story, cc_generator, cc_tts,
                   cc_ext, cc_result>>
    /\ ConcFrame

\* get_tts_engine, line 137: return tts_engine
CcTtsReturn(t) ==
    /\ cc_pc[t] = "tts_return"
    /\ cc_tts' = [cc_tts EXCEPT ![t] = tts_engine]
    /\ cc_access' = [cc_access EXCEPT ![t] = @ \cup {"tts_engine"}]
    /\ cc_pc' = [cc_pc EXCEPT ![t] = "tts"]
    /\ UNCHANGED <<story_generator, tts_engine, cc_req, cc_attempt, cc_story,
                   cc_generator, cc_ext, cc_result, cc_writes>>
    /\ ConcFrame

\* tts.generate_audio(...) and the return (lines 205-228)
CcAudio(t) ==
    /\ cc_pc[t] = "tts"
    /\ LET name == CleanName(cc_req[t].child_name)
       IN  IF cc_tts[t] = None
           THEN /\ cc_result' = [cc_result EXCEPT ![t] =
                        AudioStep(name, cc_story[t], DEMO_MODE,
                                  [raised |-> TRUE,
                                   exc |-> NoneHasNoAttribute("generate_audio"),
                                   path |-> AudioNone])]
                /\ UNCHANGED cc_ext
           ELSE \E o \in ConcTTSOutcomes :
                /\ cc_result' = [cc_result EXCEPT ![t] =
                                    AudioStep(name, cc_story[t], DEMO_MODE, o)]
                /\ cc_ext' = [cc_ext EXCEPT ![t].tts = o]
    /\ cc_pc' = [cc_pc EXCEPT ![t] = "done"]
    /\ UNCHANGED <<story_generator, tts_engine, cc_req, cc_attempt, cc_story,
                   cc_generator, cc_tts, cc_access, cc_writes>>
    /\ ConcFrame

\* The tuple reaches the outputs of generate_btn.click; the locals are gone.
CcDeliver(t) ==
    /\ cc_pc[t] = "done"
    /\ cc_pc' = [cc_pc EXCEPT ![t] = "idle"]
    /\ cc_req' = [cc_req EXCEPT ![t] = NoRequest]
    /\ cc_attempt' = [cc_attempt EXCEPT ![t] = 0]
    /\ cc_story' = [cc_story EXCEPT ![t] = <<>>]
    /\ cc_generator' = [cc_generator EXCEPT ![t] = None]
    /\ cc_tts' = [cc_tts EXCEPT ![t] = None]
    /\ cc_ext' = [cc_ext EXCEPT ![t] = NoExt]
    /\ cc_result' = [cc_result EXCEPT ![t] = NoResult]
    /\ cc_access' = [cc_access EXCEPT ![t] = {}]
    /\ UNCHANGED <<story_generator, tts_engine, cc_writes>>
    /\ ConcFrame

NextConc ==
    \E t \in Threads :
        \/ CcSubmit(t)
        \/ CcSgCheck(t)
        \/ CcSgBuild(t)
        \/ CcSgReturn(t)
        \/ CcLLMAttempt(t)
        \/ CcTtsCheck(t)
        \/ CcTtsBuild(t)
        \/ CcTtsReturn(t)
        \/ CcAudio(t)
        \/ CcDeliver(t)

ConcSpec == InitConc /\ [][NextConc]_vars

\* ------------------------------------------------------------------------
\* src/src/tts_engine.py: TTSEngine._split_into_chunks
\* ------------------------------------------------------------------------
SentenceEnds == {".", "!", "?"}

\* The first loop (lines 737-741) ends a sentence at the first character of
\* ".!?" that makes `current` longer than 10 characters: the index of that
\* character when `current` was last emptied after index `from`, or 0.
SentenceEnd(text, from) ==
    LET ends == {i \in (from + MIN_SENTENCE_CHARS + 1)..Len(text) :
                    text[i] \in SentenceEnds}
    IN  IF ends = {} THEN 0 ELSE CHOOSE i \in ends : \A j \in ends : i <= j

\* Mutant of SentencesFrom: what follows the last sentence end is dropped.
RECURSIVE SentencesFrom_NoTail(_, _)
SentencesFrom_NoTail(text, from) ==
    LET end == SentenceEnd(text, from)
    IN  IF end = 0 THEN <<>>
        ELSE <<strip(SubSeq(text, from + 1, end))>> \o SentencesFrom_NoTail(text, end)

\* `sentences` (lines 733-744) for the part of the text after index `from`
RECURSIVE SentencesFrom(_, _)
SentencesFrom(text, from) ==
    LET end == SentenceEnd(text, from)
        current == SubSeq(text, from + 1, Len(text))
    IN  IF end = 0
        THEN IF strip(current) # <<>> THEN <<strip(current)>> ELSE <<>>
        ELSE <<strip(SubSeq(text, from + 1, end))>> \o SentencesFrom(text, end)

Sentences(text) == SentencesFrom(text, 0)

\* Mutant of StartsNewChunk: the test that current_chunk is not empty is gone.
StartsNewChunk_NoGuard(current_chunk, sentence, chunk_size) ==
    Len(current_chunk) + Len(sentence) > chunk_size

\* Mutant of StartsNewChunk: one more character is let into the chunk.
StartsNewChunk_OneLate(current_chunk, sentence, chunk_size) ==
    Len(current_chunk) + Len(sentence) > chunk_size + 1 /\ current_chunk # <<>>

\* The condition of line 751
StartsNewChunk(current_chunk, sentence, chunk_size) ==
    Len(current_chunk) + Len(sentence) > chunk_size /\ current_chunk # <<>>

\* The second loop and the final append (lines 747-758)
RECURSIVE GroupSentences(_, _, _, _, _)
GroupSentences(sentences, i, chunks, current_chunk, chunk_size) ==
    IF i > Len(sentences)
    THEN IF strip(current_chunk) # <<>> THEN Append(chunks, strip(current_chunk))
         ELSE chunks
    ELSE IF StartsNewChunk(current_chunk, sentences[i], chunk_size)
    THEN GroupSentences(sentences, i + 1, Append(chunks, strip(current_chunk)),
                        sentences[i], chunk_size)
    ELSE GroupSentences(sentences, i + 1, chunks,
                        IF current_chunk # <<>>
                        THEN current_chunk \o <<" ">> \o sentences[i]
                        ELSE sentences[i],
                        chunk_size)

\* TTSEngine._split_into_chunks (lines 723-760)
split_into_chunks(text, chunk_size) ==
    LET chunks == GroupSentences(Sentences(text), 1, <<>>, <<>>, chunk_size)
    IN  IF chunks # <<>> THEN chunks ELSE <<text>>

\* Texts put together from a few pieces: a sentence of 11 characters, ten
\* characters that end in "!", a space and a question mark
Repeat(c, n) == [i \in 1..n |-> c]
TextBlocks ==
    {Repeat("a", MIN_SENTENCE_CHARS) \o <<".">>,
     Repeat("a", MIN_SENTENCE_CHARS - 1) \o <<"!">>,
     <<" ">>,
     <<"?">>}

RECURSIVE BlockTexts(_)
BlockTexts(n) ==
    IF n = 0 THEN {<<>>}
    ELSE LET shorter == BlockTexts(n - 1)
         IN  shorter \cup {t \o b : t \in shorter, b \in TextBlocks}

ChunkSizes == {-1, 0, 10, 11, 22, 23, 34, DEFAULT_CHUNK_SIZE}

InitSplit ==
    /\ AppStart(Unset)
    /\ RLStart
    /\ RetryStart(<<>>, DEFAULT_MAX_RETRIES)
    /\ LazyStart
    /\ RaceStart
    /\ ConcStart
    /\ GacStart(<<>>, DEFAULT_CHUNK_SIZE)
    /\ \E text \in BlockTexts(MaxBlocks), chunk_size \in ChunkSizes :
            SplitStart(text, chunk_size)

SplitIntoChunks ==
    /\ sp_pc = "ready"
    /\ sp_chunks' = split_into_chunks(sp_text, sp_chunk_size)
    /\ sp_pc' = "returned"
    /\ UNCHANGED <<sp_text, sp_chunk_size>>
    /\ UNCHANGED <<today, rlVars, appVars, retryVars, lazyVars, raceVars, concVars,
                   gacVars>>

NextSplit == SplitIntoChunks

SplitSpec == InitSplit /\ [][NextSplit]_vars

\* ------------------------------------------------------------------------
\* src/src/tts_engine.py: TTSEngine.generate_audio_chunks
\* ------------------------------------------------------------------------

\* Long texts: k sentences of `length` characters, each of its own letter,
\* with a space between two sentences
SentenceLetters == <<"a", "b", "c", "d", "e", "f", "g", "h">>
SentenceLengths == {1000, 2600}

LongSentence(i, length) == Repeat(SentenceLetters[i], length - 1) \o <<".">>

RECURSIVE LongText(_, _)
LongText(k, length) ==
    IF k = 1 THEN LongSentence(1, length)
    ELSE LongText(k - 1, length) \o <<" ">> \o LongSentence(k, length)

AudioTexts ==
    {LongText(k, length) : k \in 1..MaxLongSentences, length \in SentenceLengths}
    \cup {LongSentence(1, CHUNK_THRESHOLD), LongSentence(1, CHUNK_THRESHOLD + 1)}

AudioChunkSizes == {0, DEFAULT_CHUNK_SIZE, CHUNK_THRESHOLD}

InitGac ==
    /\ AppStart(Unset)
    /\ RLStart
    /\ RetryStart(<<>>, DEFAULT_MAX_RETRIES)
    /\ LazyStart
    /\ RaceStart
    /\ ConcStart
    /\ SplitStart(<<>>, DEFAULT_CHUNK_SIZE)
    /\ \E text \in AudioTexts, chunk_size \in AudioChunkSizes : GacStart(text, chunk_size)

GacFrame ==
    UNCHANGED <<today, rlVars, appVars, retryVars, lazyVars, raceVars, concVars, splitVars>>

\* Mutant of AddSegment: the segment is put in front.
AddSegment_InFront(combined, audio) == <<audio>> \o combined

\* combined += audio (line 777)
AddSegment(combined, audio) == combined \o <<audio>>

\* _concatenate_audio, lines 774-777: the segments of the files, in list order
RECURSIVE Combine(_, _)
Combine(audio_files, combined) ==
    IF audio_files = <<>> THEN combined
    ELSE Combine(Tail(audio_files), AddSegment(combined, Head(audio_files)))

\* self.generate_audio(spoken, ...): one TTS request; it writes a new temp
\* file or raises
GenerateAudio(spoken, ok, failed) ==
    \E o \in TTSOutcomes :
        IF o.raised
        THEN /\ ga_raised' = o.exc
             /\ ga_pc' = "raised"
             /\ UNCHANGED <<ga_spoken, ga_tmp>>
             /\ failed
        ELSE /\ ga_spoken' = Append(ga_spoken, spoken)
             /\ ga_tmp' = ga_tmp \cup {Len(ga_spoken) + 1}
             /\ UNCHANGED ga_raised
             /\ ok

\* Lines 698-708: the short text or the single chunk is spoken as a whole,
\* otherwise the loop over the chunks begins.
GacEnter ==
    /\ ga_pc = "ready"
    /\ LET chunks == split_into_chunks(ga_text, ga_chunk_size)
           whole == GenerateAudio(ga_text,
                        /\ ga_output' = [none |-> FALSE, path |-> Len(ga_spoken) + 1,
                                         segments |-> <<Len(ga_spoken) + 1>>]
                        /\ ga_pc' = "returned",
                        ga_output' = ga_output)
       IN  IF Len(ga_text) <= CHUNK_THRESHOLD
           THEN whole /\ UNCHANGED ga_chunks
           ELSE /\ ga_chunks' = chunks
                /\ IF Len(chunks) = 1
                   THEN whole
                   ELSE /\ ga_pc' = "loop"
                        /\ UNCHANGED <<ga_spoken, ga_tmp, ga_output, ga_raised>>
    /\ UNCHANGED <<ga_text, ga_chunk_size, ga_audio_files>>
    /\ GacFrame

\* Lines 709-711: one iteration of the loop over the chunks
GacChunk ==
    /\ ga_pc = "loop"
    /\ LET i == Len(ga_audio_files) + 1
       IN  GenerateAudio(ga_chunks[i],
                /\ ga_audio_files' = Append(ga_audio_files, Len(ga_spoken) + 1)
                /\ ga_pc' = IF i = Len(ga_chunks) THEN "concat" ELSE "loop",
                ga_audio_files' = ga_audio_files)
    /\ UNCHANGED <<ga_text, ga_chunk_size, ga_chunks, ga_output>>
    /\ GacFrame

\* Lines 714-721: _concatenate_audio, the removal of the chunk files, return
GacConcatenate ==
    /\ ga_pc = "concat"
    /\ ga_output' = [none |-> FALSE, path |-> Len(ga_spoken) + 1,
                     segments |-> Combine(ga_audio_files, <<>>)]
    /\ ga_tmp' = (ga_tmp \cup {Len(ga_spoken) + 1})
                    \ {ga_audio_files[i] : i \in 1..Len(ga_audio_files)}
    /\ ga_pc' = "returned"
    /\ UNCHANGED <<ga_text, ga_chunk_size, ga_chunks, ga_audio_files, ga_spoken, ga_raised>>
    /\ GacFrame

NextGac == GacEnter \/ GacChunk \/ GacConcatenate

GacSpec == InitGac /\ [][NextGac]_vars

\* ------------------------------------------------------------------------
\* Properties of the rate limiter (checked under Spec)
\* ------------------------------------------------------------------------

\* C1: in every reachable state the session record satisfies
\* 0 <= stories_generated_today <= MAX_STORIES_PER_DAY.
C1_CounterWithinLimit ==
    state # None =>
        /\ 0 <= state.stories_generated_today
        /\ state.stories_generated_today <= MAX_STORIES_PER_DAY

\* A call was refused with the counter standing at the maximum.
C1_Witness ==
    /\ state # None
    /\ state.stories_generated_today = MAX_STORIES_PER_DAY
    /\ call # NoCall
    /\ ~call.ret.allowed

\* The last call was made on a state already carrying the date of the call.
CallOnSameDate ==
    /\ call # NoCall
    /\ call.pre # None
    /\ call.pre.last_generation_date = call.date

\* C2: a call on a state carrying today's date returns allowed=False with
\* remaining=0 iff the counter is at or above the maximum; otherwise it returns
\* allowed=True, increments the counter by exactly 1 and returns
\* remaining = MAX_STORIES_PER_DAY - the new counter.
C2_BlocksAtMaximum ==
    CallOnSameDate =>
        LET before == call.pre.stories_generated_today
            after == call.ret.state.stories_generated_today
        IN  /\ (~call.ret.allowed /\ call.ret.remaining = 0) <=> (before >= MAX_STORIES_PER_DAY)
            /\ (before < MAX_STORIES_PER_DAY) =>
                    /\ call.ret.allowed
                    /\ after = before + 1
                    /\ call.ret.remaining = MAX_STORIES_PER_DAY - after
            /\ state = call.ret.state

\* A call on today's state at the maximum was refused.
C2_Witness ==
    /\ CallOnSameDate
    /\ call.pre.stories_generated_today = MAX_STORIES_PER_DAY
    /\ ~call.ret.allowed
    /\ call.ret.remaining = 0

\* The last call was made on a state dated on another day.
CallOnOtherDate ==
    /\ call # NoCall
    /\ call.pre # None
    /\ call.pre.last_generation_date # call.date

\* C3: a call on a state whose last_generation_date differs from the current
\* date is allowed, and afterwards the counter is 1 and the date is current.
C3_ResetsOnDateChange ==
    CallOnOtherDate =>
        /\ call.ret.allowed
        /\ call.ret.state.stories_generated_today = 1
        /\ call.ret.state.last_generation_date = call.date

\* A state blocked at the maximum was called on another date and let through.
C3_Witness ==
    /\ CallOnOtherDate
    /\ call.pre.stories_generated_today = MAX_STORIES_PER_DAY
    /\ call.ret.allowed

\* C4: while the date does not change at most MAX_STORIES_PER_DAY calls return
\* allowed=True, and once a call has returned allowed=False every later call
\* on that date returns allowed=False.
C4_AtMostMaxPerDate ==
    /\ [](runAllowed <= MAX_STORIES_PER_DAY)
    /\ [][(runBlocked /\ today' = today /\ runBlocked') => (runAllowed' = runAllowed)]_vars

\* MAX_STORIES_PER_DAY calls were allowed and a further one refused on one date.
C4_Witness ==
    /\ runAllowed = MAX_STORIES_PER_DAY
    /\ runBlocked

\* The number of further sequential check_and_update calls on date d that
\* return allowed=True, counted by making them (at most `fuel` of them).
RECURSIVE FurtherAllowed(_, _, _)
FurtherAllowed(st, d, fuel) ==
    LET r == check_and_update(st, CHOOSE id \in SessionIds : TRUE, d)
    IN  IF fuel = 0 \/ ~r.allowed THEN 0
        ELSE 1 + FurtherAllowed(r.state, d, fuel - 1)

\* C16: get_remaining(state) equals the number of further sequential
\* check_and_update calls that would be allowed on the current date:
\* MAX_STORIES_PER_DAY for a None state or a state dated on another day,
\* max(0, MAX_STORIES_PER_DAY - stories_generated_today) otherwise; and the
\* remaining value a call returns equals get_remaining of the state it returns.
C16_RemainingIsFurtherAllowed ==
    /\ get_remaining(state, today) = FurtherAllowed(state, today, MAX_STORIES_PER_DAY + 1)
    /\ (state = None \/ state.last_generation_date # today) =>
            get_remaining(state, today) = MAX_STORIES_PER_DAY
    /\ (state # None /\ state.last_generation_date = today) =>
            get_remaining(state, today) =
                IF state.stories_generated_today >= MAX_STORIES_PER_DAY THEN 0
                ELSE MAX_STORIES_PER_DAY - state.stories_generated_today
    /\ call # NoCall => call.ret.remaining = get_remaining(call.ret.state, call.date)

\* A record that was used on an earlier date is looked at on another date.
C16_Witness ==
    /\ state # None
    /\ state.last_generation_date # today
    /\ state.stories_generated_today > 0
    /\ get_remaining(state, today) = MAX_STORIES_PER_DAY

\* C18: a call that returns allowed=False leaves session_id,
\* stories_generated_today and last_generation_date as they were.
C18_BlockedCallChangesNothing ==
    (call # NoCall /\ ~call.ret.allowed) =>
        /\ call.pre # None
        /\ call.ret.state.session_id = call.pre.session_id
        /\ call.ret.state.stories_generated_today = call.pre.stories_generated_today
        /\ call.ret.state.last_generation_date = call.pre.last_generation_date
        /\ state = call.pre

\* A call was refused and the record the caller holds is the one it passed.
C18_Witness ==
    /\ call # NoCall
    /\ ~call.ret.allowed
    /\ call.pre # None
    /\ state = call.pre

\* ------------------------------------------------------------------------
\* Properties of the application
\* ------------------------------------------------------------------------
HasLetter(t) == \E i \in 1..Len(t) : isalpha(t[i])

\* `clean` is `input` with exactly the characters outside `keep` removed
IsFilterOf(clean, input, keep) ==
    LET kept == {i \in 1..Len(input) : input[i] \in keep}
    IN  /\ Len(clean) = Cardinality(kept)
        /\ \A i \in kept : clean[Cardinality({j \in kept : j <= i})] = input[i]

\* The text names the API key, as the handler's test understands it
MentionsKey(t) == \E i \in 1..Len(t) : t[i] \in {"API key", "GROQ_API_KEY"}

\* The handler has returned a story
StoryReturned == pc = "done" /\ result.story # <<>>

\* The status is the success message for `name`
IsSuccessStatus(status, name) ==
    /\ Len(status) >= Len(name) + 2
    /\ status[1] = "Story created for "
    /\ SubSeq(status, 2, Len(name) + 1) = name
    /\ status[Len(name) + 2] = "!"

\* The request carries a name with a letter and a theme
ValidRequest ==
    /\ HasLetter(req.child_name)
    /\ req.theme = Custom => (\E i \in 1..Len(req.custom_theme) : ~isspace(req.custom_theme[i]))

\* Every attempt of generate_story failed and the handler has returned
RetriesFailed ==
    /\ pc = "done"
    /\ generation = "llm"
    /\ llm_calls = DEFAULT_MAX_RETRIES + 1
    /\ story_text = <<>>

\* C5: of the requests one session makes on one date at most
\* MAX_STORIES_PER_DAY return a non-empty story (checked under QuotaSpec).
C5_QuotaGovernsRequests ==
    storiesReturned <= MAX_STORIES_PER_DAY

Letters == {c \in NameChars : isalpha(c)}

C7_NoLetterNameRejected ==
    (pc = "done" /\ ~HasLetter(req.child_name)) =>
        /\ result.story = <<>>
        /\ result.audio = AudioNone
        /\ result.status \in {NameRequired, NameInvalid}
        /\ generation = "none"
        /\ llm_calls = 0
        /\ tts_calls = 0

\* C8: when story generation succeeded and the TTS call raised, the handler
\* returns the full story, audio None and the success status with the audio
\* note, never an "Oops!" result.
C8_TTSFailureSwallowed ==
    (pc = "done" /\ tts_error # NoError) =>
        /\ story_text # <<>>
        /\ result.story = story_text
        /\ result.audio = AudioNone
        /\ IsSuccessStatus(result.status, clean_name)
        /\ Contains(result.status, AudioNote)
        /\ result.status[1] # "Oops! "

\* An LLM story was returned although TTS raised an error that names an API key.
C8_Witness ==
    /\ pc = "done"
    /\ generation = "llm"
    /\ tts_error \in TTSErrors
    /\ MentionsKey(tts_error.msg)
    /\ result.story # <<>>

\* C9 as claimed: when every attempt failed the handler returns
\* ("", None, "Oops! ...") containing the failure text, and TTS is not invoked.
C9_FailureTextSurfaced ==
    RetriesFailed =>
        /\ result.story = <<>>
        /\ result.audio = AudioNone
        /\ result.status[1] = "Oops! "
        /\ Contains(result.status, last_error.msg)
        /\ tts_calls = 0

\* C9 as amended: when every attempt failed the handler returns
\* ("", None, "Oops! ...") and TTS is not invoked; the status carries the
\* failure text ("Failed to generate story after 3 attempts: <last error>")
\* unless that text contains "API key" or "GROQ_API_KEY", in which case it is
\* the generic service-unavailable message.
C9_FailureSurfacedOrMasked ==
    RetriesFailed =>
        /\ result.story = <<>>
        /\ result.audio = AudioNone
        /\ tts_calls = 0
        /\ result.status =
              IF MentionsKey(last_error.msg)
              THEN <<"Oops! ">> \o ServiceUnavailable
              ELSE <<"Oops! ", "Failed to generate story after ",
                     ToString(DEFAULT_MAX_RETRIES + 1), " attempts: ">> \o last_error.msg

\* Every attempt failed, the last with a text naming the API key, and the
\* generic message came back.
C9_Witness ==
    /\ RetriesFailed
    /\ MentionsKey(last_error.msg)
    /\ result.status = <<"Oops! ">> \o ServiceUnavailable

\* C10 as claimed: without a GROQ_API_KEY a request with valid name and theme
\* returns an empty story, audio None and the generic service-unavailable
\* status, with no text about API keys.
C10_MissingKeyUnavailable ==
    (pc = "done" /\ Falsy(GROQ_API_KEY) /\ ValidRequest) =>
        /\ result = Result(<<>>, AudioNone, <<"Oops! ">> \o ServiceUnavailable)
        /\ ~MentionsKey(result.status)

\* C10 as amended: without a GROQ_API_KEY the application runs in demo mode: a
\* request with valid name and theme returns the demo story and the success
\* status with the demo-mode note, and issues no chat-completion request; the
\* generic service-unavailable status is returned only for a failure whose
\* text contains "API key" or "GROQ_API_KEY".
C10_MissingKeyDemoMode ==
    /\ (pc = "done" /\ Falsy(GROQ_API_KEY) /\ ValidRequest) =>
            /\ result.story = generate_demo_story(clean_name, FinalTheme(req.theme, req.custom_theme))
            /\ result.story # <<>>
            /\ IsSuccessStatus(result.status, clean_name)
            /\ Contains(result.status, DemoNote)
            /\ llm_calls = 0
    /\ (pc = "done" /\ result.status = <<"Oops! ">> \o ServiceUnavailable) =>
            /\ ~Falsy(GROQ_API_KEY)
            /\ MentionsKey(last_error.msg)

\* Without a key a valid request got the demo story.
C10_Witness ==
    /\ pc = "done"
    /\ Falsy(GROQ_API_KEY)
    /\ ValidRequest
    /\ result.story # <<>>
    /\ tts_calls = 1

\* C15: a story generate_story returns passed both validations on the attempt
\* that produced it: it is stripped, at least MIN_STORY_LENGTH characters long
\* and contains the stripped, title-cased child name case-insensitively.
C15_ReturnedStoryIsValid ==
    (generation = "llm" /\ story_text # <<>>) =>
        /\ Len(story_text) >= MIN_STORY_LENGTH
        /\ ~isspace(story_text[1])
        /\ ~isspace(story_text[Len(story_text)])
        /\ \E i \in 0..(Len(story_text) - Len(strip(clean_name))) :
              \A k \in 1..Len(strip(clean_name)) :
                  lowerAtom(story_text[i + k]) = lowerAtom(strip(clean_name)[k])

\* A story was returned on a later attempt, after a response failed validation.
C15_Witness ==
    /\ generation = "llm"
    /\ story_text # <<>>
    /\ llm_calls > 1
    /\ last_error \in {TooShortError, NameMissingError}

\* ------------------------------------------------------------------------
\* Properties of generate_story (checked under RetrySpec)
\* ------------------------------------------------------------------------

\* C11: for max_retries = n >= 0 one generate_story call issues at most n+1
\* chat-completion requests, none after the first response that passes
\* validation, and if all n+1 attempts fail it raises an exception that names
\* n+1 attempts and the last error.
C11_RetryBounded ==
    gs_max_retries >= 0 =>
        /\ gs_requests <= gs_max_retries + 1
        /\ gs_passed > 0 => (gs_requests = gs_passed /\ gs_pc = "returned")
        /\ gs_pc = "loop" => (gs_requests = gs_attempt /\ gs_attempt <= gs_max_retries)
        /\ (gs_requests = gs_max_retries + 1 /\ gs_passed = 0) =>
                /\ gs_pc = "raised"
                /\ gs_raised.type = "Exception"
                /\ gs_raised.msg =
                      <<"Failed to generate story after ", ToString(gs_max_retries + 1),
                        " attempts: ">> \o gs_last_error.msg

\* With max_retries = 2 all three attempts failed and the call raised.
C11_Witness ==
    /\ gs_max_retries = DEFAULT_MAX_RETRIES
    /\ gs_requests = DEFAULT_MAX_RETRIES + 1
    /\ gs_passed = 0
    /\ gs_pc = "raised"

\* C20: for every integer max_retries a generate_story call ends by returning
\* a validated story or by raising; it never returns without a story.
C20_ReturnsStoryOrRaises ==
    /\ gs_pc = "returned" =>
            /\ ~gs_value.none
            /\ Len(gs_value.story) >= MIN_STORY_LENGTH
    /\ gs_pc = "raised" => gs_raised # NoError

\* ------------------------------------------------------------------------
\* Properties of the lazy globals (checked under LazySpec)
\* ------------------------------------------------------------------------

\* C17: over sequential requests each lazy singleton is built at most once:
\* once a get_* call has returned an instance every later call returns that
\* instance without constructing; and if construction raises the global stays
\* None, so that the next call constructs again.
C17_SingletonsBuiltOnce ==
    /\ sg_built <= 1
    /\ tts_built <= 1
    /\ (sg_built = 1) <=> (story_generator # None)
    /\ (tts_built = 1) <=> (tts_engine # None)
    /\ (lazy_last.fn # "none" /\ lazy_last.before # None) =>
            /\ ~lazy_last.constructed
            /\ ~lazy_last.raised
            /\ lazy_last.value = lazy_last.before
    /\ (lazy_last.fn # "none" /\ lazy_last.before = None) => lazy_last.constructed
    /\ (lazy_last.fn = "story" /\ lazy_last.raised) => story_generator = None
    /\ (lazy_last.fn = "story" /\ ~lazy_last.raised) => story_generator = lazy_last.value
    /\ (lazy_last.fn = "tts") => (~lazy_last.raised /\ tts_engine = lazy_last.value)

\* A construction raised, a later one succeeded, and a call after that got the
\* instance back without constructing.
C17_Witness ==
    /\ sg_constructions >= 2
    /\ sg_built = 1
    /\ lazy_last.fn = "story"
    /\ lazy_last.before # None
    /\ lazy_last.value = story_generator

\* ------------------------------------------------------------------------
\* Properties of concurrent check_and_update calls (checked under RaceSpec)
\* ------------------------------------------------------------------------

\* C19: with check_and_update calls running concurrently on one session
\* state, the number of calls that return allowed=True on one date never
\* exceeds MAX_STORIES_PER_DAY.
C19_ConcurrentWithinLimit ==
    \A d \in Days : race_allowed[d] <= MAX_STORIES_PER_DAY

\* ------------------------------------------------------------------------
\* Properties of concurrent requests (checked under ConcSpec)
\* ------------------------------------------------------------------------

\* What a request returns when it is handled alone, as a function of its form
\* fields, the mode and what the LLM and TTS services answered to it
HandlerResult(r, demo, ext) ==
    LET cleaned == CleanName(r.child_name)
        final_theme == FinalTheme(r.theme, r.custom_theme)
    IN  IF r.child_name = <<>> \/ strip(r.child_name) = <<>>
        THEN Result(<<>>, AudioNone, NameRequired)
        ELSE IF cleaned = <<>> THEN Result(<<>>, AudioNone, NameInvalid)
        ELSE IF final_theme = <<>> THEN Result(<<>>, AudioNone, ThemeRequired)
        ELSE IF ~demo /\ ext.gen = NoOutcome THEN NoResult
        ELSE IF ~demo /\ ext.gen.raised
        THEN ErrorResult(RetriesExhausted(DEFAULT_MAX_RETRIES, ext.gen.exc))
        ELSE IF ext.tts = NoOutcome THEN NoResult
        ELSE AudioStep(cleaned,
                       IF demo THEN generate_demo_story(cleaned, final_theme)
                       ELSE ext.gen.story,
                       demo, ext.tts)

\* The module globals that requests write
SharedGlobals == UNION {cc_writes[t] : t \in Threads}

RECURSIVE JoinSentences(_)
JoinSentences(run) ==
    IF run = <<>> THEN <<>>
    ELSE IF Len(run) = 1 THEN run[1]
    ELSE run[1] \o <<" ">> \o JoinSentences(Tail(run))

\* Every chunk is one or more of the next sentences, joined by single spaces,
\* and the chunks use up the sentences.
RECURSIVE RunsOfSentences(_, _)
RunsOfSentences(chunks, sentences) ==
    IF chunks = <<>> THEN sentences = <<>>
    ELSE \E m \in 1..Len(sentences) :
            /\ Head(chunks) = JoinSentences(SubSeq(sentences, 1, m))
            /\ RunsOfSentences(Tail(chunks), SubSeq(sentences, m + 1, Len(sentences)))

\* C12 as stated: for every text and chunk_size each chunk returned is a run
\* of one or more whole consecutive sentences.
C12_ChunksAreWholeSentences ==
    sp_pc = "returned" => RunsOfSentences(sp_chunks, Sentences(sp_text))

\* C12: for every text that holds a sentence (a character that is not white
\* space) and every chunk_size, each chunk returned is a run of one or more
\* whole consecutive sentences, so no sentence is split across two chunks even
\* when it is longer than chunk_size; for an empty or all-whitespace text the
\* one chunk returned is the text itself, which holds no sentence.
C12_ChunksAreWholeSentencesOrText ==
    sp_pc = "returned" =>
        IF Sentences(sp_text) = <<>>
        THEN sp_chunks = <<sp_text>> /\ strip(sp_text) = <<>>
        ELSE /\ RunsOfSentences(sp_chunks, Sentences(sp_text))
             /\ \A i \in 1..Len(sp_chunks) : sp_chunks[i] # <<>>

\* Three sentences, each longer than chunk_size, are returned as three chunks.
C12_Witness ==
    /\ sp_pc = "returned"
    /\ Len(Sentences(sp_text)) >= 3
    /\ Len(sp_chunks) >= 3
    /\ sp_chunk_size > 0
    /\ \A i \in 1..Len(sp_chunks) : Len(sp_chunks[i]) > sp_chunk_size

\* The characters of a text that are not white space, in order
NonWhitespace(t) == SelectSeq(t, LAMBDA c : ~isspace(c))

\* "".join(chunks)
RECURSIVE JoinChunks(_)
JoinChunks(chunks) ==
    IF chunks = <<>> THEN <<>> ELSE Head(chunks) \o JoinChunks(Tail(chunks))

\* C21: for every text containing a non-whitespace character the chunks
\* returned, joined in order, have the same sequence of non-whitespace
\* characters as the text; the list is not empty and no chunk is empty.
C21_NoTextLostDuplicatedReordered ==
    (sp_pc = "returned" /\ NonWhitespace(sp_text) # <<>>) =>
        /\ sp_chunks # <<>>
        /\ \A i \in 1..Len(sp_chunks) : sp_chunks[i] # <<>>
        /\ NonWhitespace(JoinChunks(sp_chunks)) = NonWhitespace(sp_text)

\* A text with white space at both ends and a tail without a sentence end was
\* split into several chunks.
C21_Witness ==
    /\ sp_pc = "returned"
    /\ Len(sp_chunks) >= 3
    /\ Len(sp_text) > 0
    /\ isspace(sp_text[1])
    /\ sp_text[Len(sp_text)] \notin SentenceEnds
    /\ NonWhitespace(sp_text) # sp_text
    /\ JoinChunks(sp_chunks) # sp_text

\* The number of sentences in each chunk: chunk i is the join of the next
\* SentenceCounts[i] sentences (0 when it is no such join)
RECURSIVE SentenceCounts(_, _)
SentenceCounts(chunks, sentences) ==
    IF chunks = <<>> THEN <<>>
    ELSE LET fits == {m \in 1..Len(sentences) :
                        Head(chunks) = JoinSentences(SubSeq(sentences, 1, m))}
             m == IF fits = {} THEN 0 ELSE CHOOSE k \in fits : TRUE
         IN  <<m>> \o SentenceCounts(Tail(chunks),
                                     SubSeq(sentences, m + 1, Len(sentences)))

\* C22 as stated: a chunk is longer than chunk_size only if it consists of a
\* single sentence; every chunk of two or more sentences has length
\* <= chunk_size.
C22_LongChunkIsOneSentence ==
    sp_pc = "returned" =>
        LET counts == SentenceCounts(sp_chunks, Sentences(sp_text))
        IN  \A i \in 1..Len(sp_chunks) :
                /\ Len(sp_chunks[i]) > sp_chunk_size => counts[i] = 1
                /\ counts[i] >= 2 => Len(sp_chunks[i]) <= sp_chunk_size

\* C22: a chunk of two or more sentences has length <= chunk_size + 1: line
\* 751 adds the lengths of current_chunk and of the sentence without the space
\* that joins them.  A chunk longer than chunk_size + 1 is a single sentence,
\* or the text itself when the text holds no sentence.
C22_LongChunkWithinOneOfSize ==
    sp_pc = "returned" =>
        LET sentences == Sentences(sp_text)
            counts == SentenceCounts(sp_chunks, sentences)
        IN  \A i \in 1..Len(sp_chunks) :
                /\ counts[i] >= 2 => Len(sp_chunks[i]) <= sp_chunk_size + 1
                /\ Len(sp_chunks[i]) > sp_chunk_size + 1 =>
                        \/ counts[i] = 1
                        \/ sentences = <<>> /\ sp_chunks = <<sp_text>>
                /\ counts[i] = 0 => sentences = <<>>

\* A chunk of two sentences is one character longer than chunk_size.
C22_Witness ==
    /\ sp_pc = "returned"
    /\ sp_chunk_size > 0
    /\ LET counts == SentenceCounts(sp_chunks, Sentences(sp_text))
       IN  \E i \in 1..Len(sp_chunks) :
               /\ counts[i] >= 2
               /\ Len(sp_chunks[i]) = sp_chunk_size + 1

\* ------------------------------------------------------------------------
\* Properties of generate_audio_chunks (checked under GacSpec)
\* ------------------------------------------------------------------------

\* The text is long enough to be split and splits into several chunks
OnChunkedPath ==
    /\ Len(ga_text) > CHUNK_THRESHOLD
    /\ Len(split_into_chunks(ga_text, ga_chunk_size)) > 1

\* C13: on the chunked path TTS is requested once per chunk in chunk order,
\* and the combined output consists of exactly those chunks' audio segments,
\* each once, in the order in which the chunks occur in the text.
C13_SegmentsInChunkOrder ==
    (OnChunkedPath /\ ga_pc # "ready") =>
        LET chunks == split_into_chunks(ga_text, ga_chunk_size)
        IN  /\ RunsOfSentences(chunks, Sentences(ga_text))
            /\ Len(ga_spoken) <= Len(chunks)
            /\ ga_spoken = SubSeq(chunks, 1, Len(ga_spoken))
            /\ ga_pc \in {"concat", "returned"} => ga_spoken = chunks
            /\ ga_pc = "returned" =>
                /\ ~ga_output.none
                /\ Len(ga_output.segments) = Len(chunks)
                /\ \A i \in 1..Len(chunks) :
                        ga_spoken[ga_output.segments[i]] = chunks[i]
                /\ ga_tmp = {ga_output.path}
            /\ ga_pc # "returned" => ga_output = NoOutput

\* A text of six sentences was spoken in three chunks and the file returned
\* holds their three segments.
C13_Witness ==
    /\ OnChunkedPath
    /\ ga_pc = "returned"
    /\ Len(ga_chunks) >= 3
    /\ Len(ga_chunks) < Len(Sentences(ga_text))
    /\ Len(ga_output.segments) = Len(ga_chunks)

====
